---- MODULE Spec2Model ----
(***************************************************************************)
(* Model of scripts/inject_feast_assets.py (the AssetSyncer) and of        *)
(* scripts/generate_kibot_index.py (the IndexRenderer) of                  *)
(* FEASTorg/bread-infra.                                                   *)
(*                                                                         *)
(* The two scripts share nothing: Spec, SpecClone and SpecLive run the     *)
(* AssetSyncer, SpecIndex runs the IndexRenderer.                          *)
(*                                                                         *)
(* The state is the filesystem the script works on (the config file, the  *)
(* temp clone directory, the two destination folders under docs/), the    *)
(* position of main, the retry loop's counter, and the process's outcome. *)
(* Text is a sequence of one-character strings, so that str.strip() and   *)
(* str.lower() are computed and not assumed.                              *)
(***************************************************************************)
EXTENDS Integers, Sequences, FiniteSets, TLC

(* ------------------------------ bounds -------------------------------- *)

\* File names inside a folder are 1..MaxFiles.
MaxFiles == 2

\* The `retries` argument of clone_theme_repo ranges over 0..MaxRetries
\* in SpecClone.
MaxRetries == 3

\* The artifact lists of a config file have at most MaxArtifacts entries.
MaxArtifacts == 3

(* ------------------------- program constants -------------------------- *)

WANTED_COLOR_SCHEME == <<"f", "e", "a", "s", "t">>

RETRY_ATTEMPTS == 3

\* for folder in ["_sass", "_includes"]
Folders == <<"_sass", "_includes">>

FolderNames == {Folders[i] : i \in 1..Len(Folders)}

(* ------------------------------- text --------------------------------- *)

\* str.isspace() of one character
IsSpace(c) == c \in {" ", "\t", "\n"}

\* str.lower() of one character
LowerChar(c) ==
    CASE c = "F" -> "f"
      [] c = "E" -> "e"
      [] c = "A" -> "a"
      [] c = "S" -> "s"
      [] c = "T" -> "t"
      [] c = "N" -> "n"
      [] c = "M" -> "m"
      [] c = "B" -> "b"
      [] c = "O" -> "o"
      [] c = "R" -> "r"
      [] OTHER -> c

\* str.lower()
Lower(s) == [i \in 1..Len(s) |-> LowerChar(s[i])]

RECURSIVE LStrip(_)
\* str.lstrip()
LStrip(s) ==
    IF s # <<>> /\ IsSpace(Head(s)) THEN LStrip(Tail(s)) ELSE s

RECURSIVE RStrip(_)
\* str.rstrip()
RStrip(s) ==
    IF s # <<>> /\ IsSpace(s[Len(s)]) THEN RStrip(SubSeq(s, 1, Len(s) - 1)) ELSE s

\* str.strip()
Strip(s) == RStrip(LStrip(s))

\* "\n".join(lines)
RECURSIVE JoinLines(_)
JoinLines(lines) ==
    IF lines = <<>> THEN <<>>
    ELSE IF Len(lines) = 1 THEN lines[1]
    ELSE lines[1] \o <<"\n">> \o JoinLines(Tail(lines))

\* s.startswith(t)
StartsWith(s, t) == Len(s) >= Len(t) /\ SubSeq(s, 1, Len(t)) = t

\* s[n:]
Drop(s, n) == SubSeq(s, n + 1, Len(s))

\* s.replace(old, new): every occurrence of old, found left to right
\* without overlap, becomes new; old is not empty.
RECURSIVE Replace(_, _, _)
Replace(s, old, new) ==
    IF s = <<>> THEN <<>>
    ELSE IF StartsWith(s, old) THEN new \o Replace(Drop(s, Len(old)), old, new)
    ELSE <<Head(s)>> \o Replace(Tail(s), old, new)

\* s.split(","): the pieces between the commas, empty ones included
RECURSIVE SplitFrom(_, _)
SplitFrom(s, piece) ==
    IF s = <<>> THEN <<piece>>
    ELSE IF Head(s) = "," THEN <<piece>> \o SplitFrom(Tail(s), <<>>)
    ELSE SplitFrom(Tail(s), Append(piece, Head(s)))

SplitCommas(s) == SplitFrom(s, <<>>)

(* ---------------------------- config file ----------------------------- *)

\* A YAML value of the key color_scheme: a string, or null.
StrValue(s) == [t |-> "str", s |-> s]
NullValue == [t |-> "null", s |-> <<>>]

\* str(value)
PyStr(v) == IF v.t = "null" THEN <<"N", "o", "n", "e">> ELSE v.s

\* The states of docs/_config.yml.  kind is
\*   "absent"       the file does not exist
\*   "unreadable"   open() raises OSError
\*   "undecodable"  the bytes are not UTF-8: reading raises UnicodeDecodeError
\*   "badyaml"      yaml.safe_load raises YAMLError
\*   "empty"        yaml.safe_load returns None
\*   "nonmapping"   yaml.safe_load returns a list or a scalar
\*   "mapping"      yaml.safe_load returns a dict; haskey says whether it
\*                  has the key color_scheme, value is that key's value
ConfigOfKind(k) == [kind |-> k, haskey |-> FALSE, value |-> NullValue]
ConfigWith(v) == [kind |-> "mapping", haskey |-> TRUE, value |-> v]

SchemeInputs ==
    { StrValue(<<"f", "e", "a", "s", "t">>),
      StrValue(<<" ", "F", "e", "A", "s", "t", "\n">>),
      StrValue(<<"m", "i", "n", "i", "m", "a", "l">>),
      StrValue(<<"f", "e", " ", "a", "s", "t">>),
      StrValue(<<>>),
      NullValue }

ConfigInputs ==
    { ConfigOfKind(k) : k \in {"absent", "unreadable", "undecodable", "badyaml",
                               "empty", "nonmapping", "mapping"} }
    \cup { ConfigWith(v) : v \in SchemeInputs }

\* The result of a call: a returned string, a returned None, or a raised
\* exception that the function does not catch.
Returned(s) == [fault |-> FALSE, none |-> FALSE, s |-> s]
ReturnedNone == [fault |-> FALSE, none |-> TRUE, s |-> <<>>]
Raised == [fault |-> TRUE, none |-> FALSE, s |-> <<>>]

\* config.get("color_scheme", "") on what yaml.safe_load returned
ConfigGet(cfg) ==
    IF cfg.kind = "mapping"
    THEN Returned(IF cfg.haskey THEN PyStr(cfg.value) ELSE <<>>)
    ELSE Raised    \* None, a list and a scalar have no .get: AttributeError

load_color_scheme(cfg) ==
    IF cfg.kind = "absent" THEN ReturnedNone
    ELSE IF cfg.kind \in {"unreadable", "badyaml"} THEN ReturnedNone
    ELSE IF cfg.kind = "undecodable" THEN Raised
    ELSE LET g == ConfigGet(cfg)
         IN  IF g.fault THEN Raised ELSE Returned(Lower(Strip(g.s)))

(* ----------------------------- filesystem ----------------------------- *)

Files == 1..MaxFiles

\* A folder: absent, or present with a set of entries.
Dir(fs) == [exists |-> TRUE, files |-> fs]
Absent == [exists |-> FALSE, files |-> {}]

\* What a folder of the cloned repository can be.
DirInputs == {Absent} \cup {Dir(fs) : fs \in SUBSET Files}

\* What a destination folder can be before the run.
OldDirInputs == {Absent, Dir({}), Dir({1})}

\* The temp clone directory: absent, or present with its two subfolders.
Tree(sub) == [exists |-> TRUE, sub |-> sub]
NoTree == [exists |-> FALSE, sub |-> [f \in FolderNames |-> Absent]]

\* A stale _feast_temp left by an earlier run.
StaleTreeInputs ==
    { Tree([f \in FolderNames |-> Absent]), Tree([f \in FolderNames |-> Dir({1})]) }

\* The checkouts a successful git clone can produce.
CloneInputs == { Tree(sub) : sub \in [FolderNames -> DirInputs] }

(* ------------------------- filesystem calls --------------------------- *)

\* shutil.rmtree(path) on a folder: it succeeds and the folder is gone, or
\* it raises OSError having removed some of the entries; on a path that
\* does not exist it raises FileNotFoundError.
RmtreeOutcomes(d) ==
    IF d.exists
    THEN {[ok |-> TRUE, after |-> Absent]}
         \cup {[ok |-> FALSE, after |-> Dir(fs)] : fs \in SUBSET d.files}
    ELSE {[ok |-> FALSE, after |-> d]}

\* shutil.rmtree(path) on the temp clone directory.
RmtreeTreeOutcomes(t) ==
    IF t.exists
    THEN {[ok |-> TRUE, after |-> NoTree],
          [ok |-> FALSE, after |-> t],
          [ok |-> FALSE, after |-> Tree([f \in FolderNames |-> Absent])]}
    ELSE {[ok |-> FALSE, after |-> t]}

\* safe_rmtree returns True when rmtree returned, False when it raised
\* PermissionError or OSError; rm is what rmtree did.
safe_rmtree(rm) == rm.ok

\* Mutant of copytree: a source that does not exist is copied as an empty folder.
copytree_lenient(src, dst) ==
    IF dst.exists
    THEN [fault |-> TRUE, dir |-> dst]
    ELSE [fault |-> FALSE, dir |-> Dir(src.files)]

\* shutil.copytree(src, dst): raises when src does not exist or dst exists,
\* otherwise dst becomes a copy of src.
copytree(src, dst) ==
    IF ~src.exists \/ dst.exists
    THEN [fault |-> TRUE, dir |-> dst]
    ELSE [fault |-> FALSE, dir |-> Dir(src.files)]

(* ------------------------------ the steps ----------------------------- *)

\* Mutant of HasAttempt: range(1, retries + 2), one iteration more.
HasAttemptExtra(a, n) == a <= n + 1

\* Mutant of HasAttempt: range(1, retries), one iteration short.
HasAttemptShort(a, n) == a < n

\* for attempt in range(1, retries + 1)
HasAttempt(a, n) == a <= n

\* Mutant of ShouldSleep: sleeps after the last attempt too.
ShouldSleepAlways(a, n) == a <= n

\* if attempt < retries: ... time.sleep(delay)
ShouldSleep(a, n) == a < n

\* Mutant of StaleCleaned: the result of safe_rmtree is not looked at.
StaleCleanedIgnored(t, removed) == TRUE

\* main: if TEMP_CLONE_DIR.exists(): if not safe_rmtree(TEMP_CLONE_DIR):
\* sys.exit(1).  t is the temp directory found, removed what safe_rmtree
\* returned; TRUE when main goes on to the clone.
StaleCleaned(t, removed) == ~t.exists \/ removed

\* Mutant of copy_one: no rmtree of the destination, the copy merges into it.
copy_one_merge(src, dst, rm) ==
    IF ~src.exists
    THEN [fault |-> TRUE, dir |-> dst]
    ELSE [fault |-> FALSE, dir |-> Dir(src.files \cup dst.files)]

\* One iteration of copy_theme_assets: src is TEMP_CLONE_DIR / folder, dst
\* is docs / folder, rm is what shutil.rmtree(dst) does when it is called.
copy_one(src, dst, rm) ==
    IF dst.exists
    THEN IF rm.ok THEN copytree(src, rm.after)
         ELSE [fault |-> TRUE, dir |-> rm.after]
    ELSE copytree(src, dst)

\* not path.exists() or not any(path.iterdir())  is the failure
FolderOK(d) == d.exists /\ d.files # {}

\* Mutant of VerifyReport: the loop stops at the first folder that fails.
VerifyReportFirstFailure(d) ==
    [f \in FolderNames |->
        IF f = Folders[1]
        THEN IF d[f].exists /\ d[f].files # {} THEN "ok" ELSE "bad"
        ELSE IF ~(d[Folders[1]].exists /\ d[Folders[1]].files # {}) THEN "unchecked"
        ELSE IF d[f].exists /\ d[f].files # {} THEN "ok" ELSE "bad"]

\* verify_assets: what it prints for each folder
VerifyReport(d) == [f \in FolderNames |-> IF FolderOK(d[f]) THEN "ok" ELSE "bad"]

\* verify_assets: the value it returns
verify_assets(d) == \A f \in FolderNames : VerifyReport(d)[f] = "ok"

\* Mutant of FinalStatus: the result of verify_assets is not looked at.
FinalStatusUnverified(removed, verified) == 0

\* Mutant of FinalStatus: a failed removal of the temp directory fails the run.
FinalStatusStrict(removed, verified) == IF verified /\ removed THEN 0 ELSE 1

\* main after copy_theme_assets: safe_rmtree(TEMP_CLONE_DIR), whose result
\* removed is dropped; then sys.exit(1) if not verify_assets().
FinalStatus(removed, verified) == IF verified THEN 0 ELSE 1

\* Mutant of NextStep: verify_assets before the removal of the temp directory.
NextStepVerifyFirst(step) ==
    CASE step = "copy" -> "verify"
      [] step = "verify" -> "cleantemp"
      [] step = "cleantemp" -> "done"

\* The order of main's last statements.
NextStep(step) ==
    CASE step = "copy" -> "cleantemp"
      [] step = "cleantemp" -> "verify"
      [] step = "verify" -> "done"

(* --------------------------- IndexRenderer ---------------------------- *)

\* The placeholders of the template.
PROJECT_TOKEN == <<"$", "P", "R", "O", "J", "E", "C", "T", "_", "N", "A", "M", "E">>
LINKS_TOKEN == <<"$", "L", "I", "N", "K", "S">>
DATE_TOKEN == <<"$", "D", "A", "T", "E">>

\* An argument or a key that may be missing: None, or a string.
None == [given |-> FALSE, s |-> <<>>]
Some(s) == [given |-> TRUE, s |-> s]

\* bool(x) of None or a string
Truthy(x) == x.given /\ x.s # <<>>

\* x or ""
OrEmpty(x) == IF Truthy(x) THEN x.s ELSE <<>>

\* Mutant of NonBlank: only the empty string counts as blank.
NonBlankUnstripped(a) == a # <<>>

\* render_template: `if a.strip()`
NonBlank(a) == Strip(a) # <<>>

\* render_template: the key an entry is remembered under, a.lower()
SeenKey(a) == Lower(a)

\* render_template: the list comprehension with its `seen` set
RECURSIVE UniqFrom(_, _)
UniqFrom(arts, seen) ==
    IF arts = <<>> THEN <<>>
    ELSE LET a == Head(arts)
         IN  IF NonBlank(a) /\ SeenKey(a) \notin seen
             THEN <<Strip(a)>> \o UniqFrom(Tail(arts), seen \cup {SeenKey(a)})
             ELSE UniqFrom(Tail(arts), seen)

\* render_template: uniq
Uniq(arts) == UniqFrom(arts, {})

\* f"- [{a}](./{a})"
Link(a) == <<"-", " ", "[">> \o a \o <<"]", "(", ".", "/">> \o a \o <<")">>

\* render_template: links_block
LinksBlock(uniq) == JoinLines([i \in 1..Len(uniq) |-> Link(uniq[i])])

render_template(template, project, artifacts, timestamp) ==
    Replace(Replace(Replace(template, PROJECT_TOKEN, project),
                    LINKS_TOKEN, LinksBlock(Uniq(artifacts))),
            DATE_TOKEN, timestamp)

\* main: [a.strip() for a in args.artifacts.split(",") if a.strip()]
ParseArtifacts(s) ==
    LET pieces == SplitCommas(s)
        kept == SelectSeq(pieces, LAMBDA a : Strip(a) # <<>>)
    IN  [i \in 1..Len(kept) |-> Strip(kept[i])]

\* Mutant of OutText: the rendered text is written as it is, plus a newline.
OutTextUnstripped(md) == md \o <<"\n">>

\* main: index_md.rstrip() + "\n"
OutText(md) == RStrip(md) \o <<"\n">>

(* ------------------------------- state -------------------------------- *)

VARIABLES
    config,      \* docs/_config.yml
    retries,     \* the retries argument of clone_theme_repo
    tempDir,     \* _feast_temp
    docs,        \* docs/_sass and docs/_includes
    pc,          \* where main is
    attempt,     \* clone_theme_repo's loop variable
    idx,         \* copy_theme_assets's position in Folders
    report,      \* what verify_assets printed for each folder
    exitStatus,  \* the process's exit status, read when pc = "done"
    fault,       \* TRUE when an exception left main uncaught
    log,         \* the steps taken so far, in order
    docs0,       \* docs before the run
    temp0        \* _feast_temp before the run

\* The IndexRenderer's state.
VARIABLES
    args,          \* the command line: --project, --artifacts, --config
    cfgFile,       \* the file --config names
    templateFile,  \* the file --template names
    outFile,       \* the file --out-md names
    rpc,           \* where the IndexRenderer's main is
    source,        \* the branch main took to resolve the artifact list
    project,       \* main's project
    artifacts,     \* main's artifacts
    links,         \* render_template's uniq
    indexMd,       \* main's index_md
    rExit,         \* the exit status, read when rpc = "done"
    rFault,        \* TRUE when an exception left main uncaught
    stderr,        \* TRUE when main printed its error to sys.stderr
    out0           \* outFile before the run

rvars == <<args, cfgFile, templateFile, outFile, rpc, source, project,
           artifacts, links, indexMd, rExit, rFault, stderr, out0>>

svars == <<config, retries, tempDir, docs, pc, attempt, idx, report,
           exitStatus, fault, log, docs0, temp0>>

vars == <<svars, rvars>>

\* A file of text: absent, or present with its text.
NoFile == [exists |-> FALSE, text |-> <<>>]
TextFile(t) == [exists |-> TRUE, text |-> t]

\* The file --config names.  kind is "absent" (open raises), "empty"
\* (yaml.safe_load returns None) or "mapping"; project_name is the value
\* of that key or None, artifacts the list under that key, listed = FALSE
\* when the key is missing or null.
NoConfig == [kind |-> "absent", project_name |-> None, listed |-> FALSE, artifacts |-> <<>>]
EmptyConfig == [kind |-> "empty", project_name |-> None, listed |-> FALSE, artifacts |-> <<>>]
Mapping(pn, arts) == [kind |-> "mapping", project_name |-> pn, listed |-> TRUE, artifacts |-> arts]
MappingNoList(pn) == [kind |-> "mapping", project_name |-> pn, listed |-> FALSE, artifacts |-> <<>>]

\* The command line.
Args(p, a, c) == [project |-> p, artifacts |-> a, config |-> c]

\* The IndexRenderer is not running.
RendererIdle ==
    /\ args = Args(None, None, FALSE)
    /\ cfgFile = NoConfig
    /\ templateFile = NoFile
    /\ outFile = NoFile
    /\ rpc = "idle"
    /\ source = "unset"
    /\ project = None
    /\ artifacts = <<>>
    /\ links = <<>>
    /\ indexMd = <<>>
    /\ rExit = 0
    /\ rFault = FALSE
    /\ stderr = FALSE
    /\ out0 = NoFile

InitWith(n) ==
    /\ config \in ConfigInputs
    /\ retries = n
    /\ tempDir \in {NoTree} \cup StaleTreeInputs
    /\ docs \in [FolderNames -> OldDirInputs]
    /\ pc = "start"
    /\ attempt = 1
    /\ idx = 1
    /\ report = [f \in FolderNames |-> "unchecked"]
    /\ exitStatus = 0
    /\ fault = FALSE
    /\ log = <<>>
    /\ docs0 = docs
    /\ temp0 = tempDir
    /\ RendererIdle

\* main calls clone_theme_repo() with its defaults.
Init == InitWith(RETRY_ATTEMPTS)

\* clone_theme_repo(retries = n) for every n of the bound.
InitClone == \E n \in 0..MaxRetries : InitWith(n)

\* main: if not CONFIG_PATH.exists(): ... sys.exit(1)
MissingConfigStatus == 1

\* sys.exit(status)
Exit(status, event) ==
    /\ exitStatus' = status
    /\ log' = Append(log, event)
    /\ pc' = "done"

\* An exception nothing catches: traceback, exit status 1.
Crash(event) ==
    /\ fault' = TRUE
    /\ Exit(1, event)

\* main: if not CONFIG_PATH.exists(): sys.exit(1)
CheckConfig ==
    /\ pc = "start"
    /\ IF config.kind = "absent"
       THEN Exit(MissingConfigStatus, "config_missing")
       ELSE /\ pc' = "gate"
            /\ UNCHANGED <<exitStatus, log>>
    /\ UNCHANGED <<config, retries, tempDir, docs, attempt, idx, report,
                   fault, docs0, temp0>>
    /\ UNCHANGED rvars

\* main: color_scheme = load_color_scheme(CONFIG_PATH);
\* if color_scheme != WANTED_COLOR_SCHEME: return
Gate ==
    /\ pc = "gate"
    /\ LET r == load_color_scheme(config)
       IN  IF r.fault
           THEN Crash("load_fault")
           ELSE /\ IF r.none \/ r.s # WANTED_COLOR_SCHEME
                   THEN Exit(0, "gate_skip")
                   ELSE /\ pc' = "cleanstale"
                        /\ log' = Append(log, "gate_pass")
                        /\ UNCHANGED exitStatus
                /\ UNCHANGED fault
    /\ UNCHANGED <<config, retries, tempDir, docs, attempt, idx, report,
                   docs0, temp0>>
    /\ UNCHANGED rvars

\* main: if TEMP_CLONE_DIR.exists(): if not safe_rmtree(TEMP_CLONE_DIR): sys.exit(1)
CleanStaleTemp ==
    /\ pc = "cleanstale"
    /\ IF tempDir.exists
       THEN \E rm \in RmtreeTreeOutcomes(tempDir) :
              /\ tempDir' = rm.after
              /\ IF StaleCleaned(tempDir, safe_rmtree(rm))
                 THEN /\ pc' = "clone"
                      /\ log' = Append(log, IF safe_rmtree(rm) THEN "clean_stale_ok"
                                                               ELSE "clean_stale_fail")
                      /\ UNCHANGED exitStatus
                 ELSE Exit(1, "clean_stale_fail")
       ELSE /\ pc' = "clone"
            /\ UNCHANGED <<tempDir, exitStatus, log>>
    /\ attempt' = 1
    /\ UNCHANGED <<config, retries, docs, idx, report, fault, docs0, temp0>>
    /\ UNCHANGED rvars

\* clone_theme_repo: one iteration of the loop up to the sleep, one
\* subprocess.run of git clone.
\* A git clone that fails leaves the temp directory as it found it.
CloneAttempt ==
    /\ pc = "clone"
    /\ HasAttempt(attempt, retries)
    /\ \/ \E t \in CloneInputs :
            /\ tempDir' = t
            /\ log' = Append(log, "clone_ok")
            /\ pc' = "copy"
            /\ UNCHANGED attempt
       \/ /\ log' = Append(log, "clone_fail")
          /\ IF ShouldSleep(attempt, retries)
             THEN pc' = "sleep" /\ UNCHANGED attempt
             ELSE pc' = "clone" /\ attempt' = attempt + 1
          /\ UNCHANGED tempDir
    /\ idx' = 1
    /\ UNCHANGED <<config, retries, docs, report, exitStatus, fault, docs0, temp0>>
    /\ UNCHANGED rvars

\* clone_theme_repo: time.sleep(delay), then the next iteration
Sleep ==
    /\ pc = "sleep"
    /\ log' = Append(log, "sleep")
    /\ attempt' = attempt + 1
    /\ pc' = "clone"
    /\ UNCHANGED <<config, retries, tempDir, docs, idx, report, exitStatus,
                   fault, docs0, temp0>>
    /\ UNCHANGED rvars

\* clone_theme_repo: the loop is over, return False;
\* main: if not clone_theme_repo(): sys.exit(1)
CloneExhausted ==
    /\ pc = "clone"
    /\ ~HasAttempt(attempt, retries)
    /\ Exit(1, "clone_exhausted")
    /\ UNCHANGED <<config, retries, tempDir, docs, attempt, idx, report,
                   fault, docs0, temp0>>
    /\ UNCHANGED rvars

\* copy_theme_assets: one iteration of its loop
CopyFolder ==
    /\ pc = "copy"
    /\ idx <= Len(Folders)
    /\ LET f == Folders[idx]
       IN  \E rm \in RmtreeOutcomes(docs[f]) :
             LET c == copy_one(tempDir.sub[f], docs[f], rm)
             IN  /\ docs' = [docs EXCEPT ![f] = c.dir]
                 /\ IF c.fault
                    THEN /\ Crash("copy_fault")
                         /\ UNCHANGED idx
                    ELSE /\ idx' = idx + 1
                         /\ log' = Append(log, "copy")
                         /\ pc' = IF idx = Len(Folders) THEN NextStep("copy") ELSE "copy"
                         /\ UNCHANGED <<exitStatus, fault>>
    /\ UNCHANGED <<config, retries, tempDir, attempt, report, docs0, temp0>>
    /\ UNCHANGED rvars

\* main: safe_rmtree(TEMP_CLONE_DIR)
CleanTemp ==
    /\ pc = "cleantemp"
    /\ \E rm \in RmtreeTreeOutcomes(tempDir) :
          /\ tempDir' = rm.after
          /\ log' = Append(log, IF safe_rmtree(rm) THEN "clean_temp_ok"
                                                   ELSE "clean_temp_fail")
    /\ pc' = NextStep("cleantemp")
    /\ UNCHANGED <<config, retries, docs, attempt, idx, report, exitStatus,
                   fault, docs0, temp0>>
    /\ UNCHANGED rvars

\* main: if not verify_assets(): sys.exit(1)
Verify ==
    /\ pc = "verify"
    /\ report' = VerifyReport(docs)
    /\ log' = Append(log, IF verify_assets(docs) THEN "verify_ok" ELSE "verify_fail")
    /\ exitStatus' = FinalStatus("clean_temp_ok" \in {log[i] : i \in 1..Len(log)},
                                 verify_assets(docs))
    /\ pc' = NextStep("verify")
    /\ UNCHANGED <<config, retries, tempDir, docs, attempt, idx, fault, docs0, temp0>>
    /\ UNCHANGED rvars

Next ==
    \/ CheckConfig
    \/ Gate
    \/ CleanStaleTemp
    \/ CloneAttempt
    \/ Sleep
    \/ CloneExhausted
    \/ CopyFolder
    \/ CleanTemp
    \/ Verify

\* main as the script runs it
Spec == Init /\ [][Next]_vars

\* main with clone_theme_repo called with each retries of the bound
SpecClone == InitClone /\ [][Next]_vars

\* main when every call it makes returns: the interpreter always runs the
\* next statement.
SpecLive == Init /\ [][Next]_vars /\ WF_vars(Next)

(* ----------------------- the IndexRenderer's run ---------------------- *)

\* Artifact names.
NameFoo == <<"F", "o", "o">>
NameLowerFoo == <<"f", "o", "o">>
NameBar == <<"B", "A", "R">>
NameX == <<"x">>

\* The entries an artifact list of a config file is made of.
ArtifactEntryInputs ==
    { NameFoo, NameLowerFoo, NameBar, NameX,
      <<>>, <<" ", " ">>,
      <<"f", "o", "o", " ">>,
      DATE_TOKEN }

ArtifactListInputs ==
    UNION { [1..n -> ArtifactEntryInputs] : n \in 0..MaxArtifacts }

\* Templates: a token followed by text, the links alone, all three tokens
\* with whitespace at the end, a token twice, no text, whitespace only.
TemplateInputs ==
    { PROJECT_TOKEN \o <<"-", "e", "x", "t", "r", "a">>,
      LINKS_TOKEN \o <<"\n">>,
      <<"#", " ">> \o PROJECT_TOKEN \o <<"\n">> \o LINKS_TOKEN \o <<"\n">>
          \o DATE_TOKEN \o <<" ", "\n", "\n">>,
      <<"x">> \o DATE_TOKEN \o DATE_TOKEN,
      <<>>,
      <<" ", "\n", "\t">> }

\* datetime.now(timezone.utc).strftime(...)
TimestampInputs == { <<"2", "0", "2", "6">>, <<"2", "0", "2", "7">> }

\* --project
ProjectArgInputs == { None, Some(<<"P">>), Some(LINKS_TOKEN) }

\* --artifacts
ArtifactsArgInputs ==
    { None, Some(<<>>), Some(NameX),
      Some(NameFoo \o <<",", " ">> \o NameLowerFoo \o <<",", ",">> \o NameBar) }

\* The file --config names, when the driver is looked at.
ConfigFileInputs ==
    { NoConfig, EmptyConfig, Mapping(None, <<NameFoo>>), MappingNoList(Some(<<"Q">>)) }

OutFileInputs == { NoFile, TextFile(<<"o", "l", "d", "\n">>) }

\* The AssetSyncer is not running.
SyncerIdle ==
    /\ config = ConfigOfKind("absent")
    /\ retries = RETRY_ATTEMPTS
    /\ tempDir = NoTree
    /\ docs = [f \in FolderNames |-> Absent]
    /\ pc = "idle"
    /\ attempt = 1
    /\ idx = 1
    /\ report = [f \in FolderNames |-> "unchecked"]
    /\ exitStatus = 0
    /\ fault = FALSE
    /\ log = <<>>
    /\ docs0 = docs
    /\ temp0 = tempDir

\* The inputs of a run that takes every artifact list from a config file.
RenderInputs ==
    /\ args = Args(None, None, TRUE)
    /\ cfgFile \in { Mapping(Some(<<"P">>), l) : l \in ArtifactListInputs }
    /\ templateFile \in { TextFile(t) : t \in TemplateInputs }
    /\ outFile = NoFile

\* The inputs of a run for every command line.
DriverInputs ==
    /\ args \in { Args(p, a, c) : p \in ProjectArgInputs, a \in ArtifactsArgInputs,
                                  c \in BOOLEAN }
    /\ cfgFile \in (IF args.config THEN ConfigFileInputs ELSE {NoConfig})
    /\ templateFile \in {NoFile} \cup { TextFile(t) : t \in TemplateInputs }
    /\ outFile \in OutFileInputs

InitIndex ==
    /\ SyncerIdle
    /\ RenderInputs \/ DriverInputs
    /\ rpc = "start"
    /\ source = "unset"
    /\ project = None
    /\ artifacts = <<>>
    /\ links = <<>>
    /\ indexMd = <<>>
    /\ rExit = 0
    /\ rFault = FALSE
    /\ stderr = FALSE
    /\ out0 = outFile

\* main: if args.artifacts: ... elif args.config: ... else: ...
ChosenSource(a) ==
    IF Truthy(a.artifacts) THEN "artifacts"
    ELSE IF a.config THEN "config"
    ELSE "usage"

\* load_config: yaml.safe_load(f) or {}; open raises when the file is absent
load_config(f) ==
    IF f.kind = "absent" THEN [fault |-> TRUE, cfg |-> f]
    ELSE IF f.kind = "empty" THEN [fault |-> FALSE, cfg |-> MappingNoList(None)]
    ELSE [fault |-> FALSE, cfg |-> f]

\* project or cfg.get("project_name", "")
ProjectFrom(p, cfg) ==
    IF Truthy(p) THEN p
    ELSE IF cfg.project_name.given THEN cfg.project_name
    ELSE Some(<<>>)

\* cfg.get("artifacts", []) or []
ArtifactsFrom(cfg) == IF cfg.listed THEN cfg.artifacts ELSE <<>>

\* sys.exit(status) of the IndexRenderer
RExit(status) ==
    /\ rExit' = status
    /\ rpc' = "done"

\* An exception nothing catches: traceback, exit status 1.
RCrash ==
    /\ rFault' = TRUE
    /\ RExit(1)

\* main: project and artifacts from the arguments or the config file
Resolve ==
    /\ rpc = "start"
    /\ source' = ChosenSource(args)
    /\ CASE ChosenSource(args) = "artifacts" ->
              /\ artifacts' = ParseArtifacts(args.artifacts.s)
              /\ project' = args.project
              /\ rpc' = "render"
              /\ UNCHANGED <<rExit, rFault, stderr>>
         [] ChosenSource(args) = "config" ->
              LET r == load_config(cfgFile)
              IN  IF r.fault
                  THEN /\ RCrash
                       /\ UNCHANGED <<artifacts, project, stderr>>
                  ELSE /\ project' = ProjectFrom(args.project, r.cfg)
                       /\ artifacts' = ArtifactsFrom(r.cfg)
                       /\ rpc' = "render"
                       /\ UNCHANGED <<rExit, rFault, stderr>>
         [] OTHER ->
              /\ stderr' = TRUE
              /\ RExit(1)
              /\ UNCHANGED <<artifacts, project, rFault>>
    /\ UNCHANGED <<args, cfgFile, templateFile, outFile, links, indexMd, out0>>
    /\ UNCHANGED svars

\* main: timestamp, args.template.read_text, render_template
Render ==
    /\ rpc = "render"
    /\ IF templateFile.exists
       THEN \E ts \in TimestampInputs :
              /\ links' = Uniq(artifacts)
              /\ indexMd' = render_template(templateFile.text, OrEmpty(project),
                                            artifacts, ts)
              /\ rpc' = "write"
              /\ UNCHANGED <<rExit, rFault>>
       ELSE /\ RCrash
            /\ UNCHANGED <<links, indexMd>>
    /\ UNCHANGED <<args, cfgFile, templateFile, outFile, source, project,
                   artifacts, stderr, out0>>
    /\ UNCHANGED svars

\* main: args.out_md.write_text(index_md.rstrip() + "\n")
WriteOut ==
    /\ rpc = "write"
    /\ outFile' = TextFile(OutText(indexMd))
    /\ rpc' = "done"
    /\ UNCHANGED <<args, cfgFile, templateFile, source, project, artifacts,
                   links, indexMd, rExit, rFault, stderr, out0>>
    /\ UNCHANGED svars

NextIndex ==
    \/ Resolve
    \/ Render
    \/ WriteOut

\* The IndexRenderer's main
SpecIndex == InitIndex /\ [][NextIndex]_vars

(* ------------------------- reading the log ---------------------------- *)

Events == {log[i] : i \in 1..Len(log)}

Count(e) == Cardinality({i \in 1..Len(log) : log[i] = e})

CloneEvents == {"clone_ok", "clone_fail"}

\* The number of git clone invocations so far.
Invocations == Count("clone_ok") + Count("clone_fail")

\* The number of time.sleep calls so far.
Delays == Count("sleep")

\* Both iterations of copy_theme_assets completed.
CopyCompleted == Count("copy") = Len(Folders)

\* The file is there and the scheme it gives, trimmed and lower-cased, is
\* the wanted one.
SchemeIsWanted(cfg) ==
    /\ cfg.kind = "mapping"
    /\ cfg.haskey
    /\ Lower(Strip(PyStr(cfg.value))) = WANTED_COLOR_SCHEME

(* ------------------------------- claims ------------------------------- *)

\* The states of the config file in which main reads a scheme from text:
\* the file is there and its bytes decode.
ConfigIsText(cfg) == cfg.kind \notin {"absent", "undecodable"}

\* C1: whenever the config file is there and its color_scheme is not
\* 'feast' ('minimal', or no color_scheme at all), a finished run of main
\* has invoked no clone, copied nothing, left the temp directory and both
\* destination folders exactly as they were, and exits with status 0.
C1_GateSkipsCleanly ==
    (pc = "done" /\ ConfigIsText(config) /\ ~SchemeIsWanted(config))
        => /\ Invocations = 0
           /\ Count("copy") = 0
           /\ tempDir = temp0
           /\ docs = docs0
           /\ exitStatus = 0

\* C2: when invocation k <= retries of git clone is the first to succeed,
\* clone_theme_repo has made exactly k invocations and k - 1 sleeps, nothing
\* of the loop happens after the success, and every sleep stands between a
\* failed invocation and a further invocation.
C2_RetryCounting ==
    /\ \A i \in 1..Len(log) :
          log[i] = "clone_ok"
            => /\ Invocations = attempt
               /\ Count("clone_fail") = attempt - 1
               /\ Delays = attempt - 1
               /\ attempt >= 1 /\ attempt <= retries
               /\ \A j \in (i + 1)..Len(log) : log[j] \notin CloneEvents \cup {"sleep"}
    /\ \A i \in 1..Len(log) :
          log[i] = "sleep"
            => /\ i > 1 /\ log[i - 1] = "clone_fail"
               /\ IF i = Len(log)
                  THEN pc = "clone" /\ attempt <= retries
                  ELSE log[i + 1] \in CloneEvents

\* C2 witness: fail, fail, succeed with retries = 3.
C2_Witness ==
    /\ retries = 3
    /\ pc = "copy"
    /\ log = <<"gate_pass", "clone_fail", "sleep", "clone_fail", "sleep", "clone_ok">>

\* C3: when all `retries` invocations of git clone fail, clone_theme_repo
\* has made exactly `retries` invocations and returns False, main exits
\* with status 1, no copy and no verify is executed, and both destination
\* folders are as before the run.
C3_CloneExhaustion ==
    /\ Count("clone_fail") <= retries
    /\ (pc = "clone" /\ Count("clone_fail") = retries) => attempt > retries
    /\ "clone_exhausted" \in Events
         => /\ Count("clone_fail") = retries
            /\ Count("clone_ok") = 0
            /\ pc = "done" /\ exitStatus = 1 /\ ~fault
            /\ Events \cap {"copy", "copy_fault", "verify_ok", "verify_fail"} = {}
            /\ docs = docs0

\* C3 witness: three failed invocations, then the exit.
C3_Witness ==
    /\ retries = 3
    /\ "clone_exhausted" \in Events
    /\ Count("clone_fail") = 3
    /\ docs0["_sass"] = Dir({1})

\* C4: when the gate passes and the temp directory exists and cannot be
\* removed, main exits with status 1 without any clone invocation and with
\* the destination folders untouched; git clone is invoked only when the
\* temp directory is absent, having been absent or removed.
C4_StaleTempAborts ==
    /\ "clean_stale_fail" \in Events
         => /\ pc = "done" /\ exitStatus = 1
            /\ Invocations = 0
            /\ docs = docs0
    /\ pc = "clone" => ~tempDir.exists
    /\ Invocations > 0 => (~temp0.exists \/ "clean_stale_ok" \in Events)

\* C4 witness: a stale temp directory whose removal failed.
C4_Witness ==
    /\ pc = "done"
    /\ temp0.exists
    /\ tempDir.exists
    /\ "clean_stale_fail" \in Events

\* C5: once a folder has been copied, docs/<folder> holds exactly the
\* entries of the clone's <folder>: nothing that was only in the old
\* destination remains.
C5_DestinationReplaced ==
    ("clone_ok" \in Events /\ Events \cap {"clean_temp_ok", "clean_temp_fail"} = {})
        => \A i \in 1..Len(Folders) :
              i < idx
                => LET f == Folders[i]
                   IN  /\ tempDir.sub[f].exists
                       /\ docs[f] = Dir(tempDir.sub[f].files)
                       /\ docs[f].files \cap (docs0[f].files \ tempDir.sub[f].files) = {}

\* C5 witness: both folders copied, the old entry 1 of docs/_sass replaced
\* by the clone's entry 2.
C5_Witness ==
    /\ pc = "cleantemp"
    /\ docs0["_sass"] = Dir({1})
    /\ docs0["_includes"] = Dir({1})
    /\ docs["_sass"] = Dir({2})

\* What verify_assets has to report for the destination folders as they are.
ReportIsPerFolder ==
    \A f \in FolderNames : report[f] = (IF FolderOK(docs[f]) THEN "ok" ELSE "bad")

\* C6 as stated: when a destination folder is missing or empty after the
\* copy, verify_assets reports that folder and the other one each on its
\* own, main exits with status 1, and the temp clone directory is removed.
C6_VerificationFailure ==
    "verify_fail" \in Events
        => /\ ReportIsPerFolder
           /\ \E f \in FolderNames : report[f] = "bad"
           /\ pc = "done" /\ exitStatus = 1
           /\ ~tempDir.exists

\* C6 amended: the same, but of the temp clone directory only that its
\* removal was attempted before the verification; it is gone when that
\* removal succeeded.
C6_VerificationFailureAmended ==
    "verify_fail" \in Events
        => /\ ReportIsPerFolder
           /\ \E f \in FolderNames : report[f] = "bad"
           /\ pc = "done" /\ exitStatus = 1
           /\ Events \cap {"clean_temp_ok", "clean_temp_fail"} # {}
           /\ "clean_temp_ok" \in Events => ~tempDir.exists

\* C6 witness: docs/_sass verified, docs/_includes empty.
C6_Witness ==
    /\ "verify_fail" \in Events
    /\ report["_sass"] = "ok"
    /\ report["_includes"] = "bad"
    /\ docs["_includes"] = Dir({})
    /\ ~tempDir.exists

\* The step an event of the log belongs to; 0 for what is no step.
StepOf(e) ==
    CASE e \in {"clean_stale_ok", "clean_stale_fail"} -> "clean_stale"
      [] e \in {"clone_ok", "clone_fail", "sleep", "clone_exhausted"} -> "clone"
      [] e \in {"copy", "copy_fault"} -> "copy"
      [] e \in {"clean_temp_ok", "clean_temp_fail"} -> "clean_temp"
      [] e \in {"verify_ok", "verify_fail"} -> "verify"
      [] OTHER -> "none"

\* The position of step s in the order `order`, 0 when it is not in it.
Rank(order, s) ==
    IF \E k \in 1..Len(order) : order[k] = s
    THEN CHOOSE k \in 1..Len(order) : order[k] = s
    ELSE 0

\* The steps of the log follow `order`.
StepsFollow(order) ==
    \A i, j \in 1..Len(log) :
        (i < j /\ StepOf(log[i]) # "none" /\ StepOf(log[j]) # "none")
            => Rank(order, StepOf(log[i])) <= Rank(order, StepOf(log[j]))

\* Nothing follows an event of `failures` in the log.
NothingAfter(failures) ==
    \A i \in 1..Len(log) : log[i] \in failures => i = Len(log)

\* Each step that is no loop is taken at most once.
StepsOnce ==
    \A e \in {"clean_stale_ok", "clean_stale_fail", "clean_temp_ok", "clean_temp_fail",
              "verify_ok", "verify_fail", "clone_ok", "clone_exhausted"} : Count(e) <= 1

\* C7 as stated: the steps of a run that passed the gate come in the order
\* clean stale temp, clone, copy, verify, clean temp, and no step follows a
\* step that failed.
C7_StepOrder ==
    /\ StepsFollow(<<"clean_stale", "clone", "copy", "verify", "clean_temp">>)
    /\ StepsOnce
    /\ NothingAfter({"clean_stale_fail", "clone_exhausted", "copy_fault",
                     "clean_temp_fail", "verify_fail"})

\* C7 amended: the order is clean stale temp, clone, copy, clean temp,
\* verify: the temp directory is removed before the destinations are
\* verified; no step follows a step that failed, except that the
\* verification follows the final removal also when that removal failed.
C7_StepOrderAmended ==
    /\ StepsFollow(<<"clean_stale", "clone", "copy", "clean_temp", "verify">>)
    /\ StepsOnce
    /\ NothingAfter({"clean_stale_fail", "clone_exhausted", "copy_fault", "verify_fail"})
    /\ "gate_pass" \notin Events => \A i \in 1..Len(log) : StepOf(log[i]) = "none"
    /\ \A i \in 1..Len(log) :
          StepOf(log[i]) = "verify"
            => i > 1 /\ StepOf(log[i - 1]) = "clean_temp"

\* C7 witness: a run through all five steps.
C7_Witness ==
    /\ pc = "done"
    /\ log = <<"gate_pass", "clean_stale_ok", "clone_fail", "sleep", "clone_ok",
               "copy", "copy", "clean_temp_ok", "verify_ok">>

\* C8: main exits with status 0 exactly when it skipped at the gate or the
\* clone succeeded, both folders were copied and both destinations exist
\* and are non-empty; it exits with status 1 when the config file is
\* missing, the stale temp directory is not removable, every clone failed,
\* or the verification failed.
C8_ExitStatus ==
    pc = "done"
        => /\ exitStatus = 0
                <=> \/ "gate_skip" \in Events
                    \/ /\ "clone_ok" \in Events
                       /\ CopyCompleted
                       /\ \A f \in FolderNames : FolderOK(docs[f])
           /\ exitStatus \in {0, 1}
           /\ Events \cap {"config_missing", "clean_stale_fail", "clone_exhausted",
                           "verify_fail"} # {} => exitStatus = 1
           /\ config.kind = "absent" => "config_missing" \in Events

\* C8 witness: a run that injected and verified.
C8_Witness ==
    /\ pc = "done"
    /\ exitStatus = 0
    /\ "verify_ok" \in Events
    /\ docs0["_sass"] = Absent

\* C9: for every state of the config file (absent, unreadable, not
\* parsable, empty, not a mapping, a mapping without or with color_scheme)
\* load_color_scheme returns the trimmed, lower-cased scheme or None, and
\* raises nothing.
C9_LoadNeverFaults ==
    (pc = "done" /\ config.kind # "undecodable")
        => LET r == load_color_scheme(config)
           IN  /\ ~r.fault
               /\ "load_fault" \notin Events
               /\ ~r.none => r.s = Lower(Strip(r.s))

\* C10: once both folders are copied the removal of the temp clone
\* directory is attempted, whether the verification then passes or fails,
\* and the exit status is decided by the verification alone, the same
\* when the removal failed as when it succeeded.
C10_CleanupKeepsOutcome ==
    CopyCompleted
        => /\ pc \in {"verify", "done"}
                => Count("clean_temp_ok") + Count("clean_temp_fail") = 1
           /\ pc = "done"
                => exitStatus = (IF \A f \in FolderNames : FolderOK(docs[f]) THEN 0 ELSE 1)

\* C10 witness: the removal failed, the verification passed, status 0.
C10_Witness ==
    /\ pc = "done"
    /\ "clean_temp_fail" \in Events
    /\ tempDir.exists
    /\ "verify_ok" \in Events
    /\ exitStatus = 0

\* C15: when the clone succeeded and a source subfolder is absent from it,
\* the copy step raises an exception nothing catches: the process ends
\* with a non-zero status, neither the verification nor the final removal
\* of the temp directory is executed, and the temp clone directory stays.
C15_CopyFaultPath ==
    /\ pc \in {"cleantemp", "verify"} => CopyCompleted
    /\ pc = "cleantemp" => \A f \in FolderNames : tempDir.sub[f].exists
    /\ (pc = "done" /\ "clone_ok" \in Events /\ ~CopyCompleted)
          => "copy_fault" \in Events
    /\ "copy_fault" \in Events
          => /\ pc = "done" /\ fault /\ exitStatus # 0
             /\ Events \cap {"clean_temp_ok", "clean_temp_fail",
                             "verify_ok", "verify_fail"} = {}
             /\ tempDir.exists
    /\ (pc = "copy" /\ ~tempDir.sub[Folders[idx]].exists)
          => \A rm \in RmtreeOutcomes(docs[Folders[idx]]) :
                copy_one(tempDir.sub[Folders[idx]], docs[Folders[idx]], rm).fault

\* C15 witness: _sass was copied, _includes is absent from the clone.
C15_Witness ==
    /\ pc = "done"
    /\ "copy_fault" \in Events
    /\ Count("copy") = 1
    /\ tempDir.exists
    /\ tempDir.sub["_sass"].exists
    /\ ~tempDir.sub["_includes"].exists

\* C16: a config file that is there but does not parse ends main with the
\* status a missing config file ends it with.
C16_OneConfigErrorPolicy ==
    (pc = "done" /\ config.kind = "badyaml") => exitStatus = MissingConfigStatus

\* C17: a run that ends with a non-zero status before the verification
\* leaves both destination folders with the contents they had.
C17_EarlyFailureKeepsDestinations ==
    (pc = "done" /\ exitStatus # 0 /\ Events \cap {"verify_ok", "verify_fail"} = {})
        => docs = docs0

\* C18: every run of main terminates, after at most RETRY_ATTEMPTS clone
\* invocations; the retry loop makes at most `retries` iterations and is
\* not entered again once it has returned.
C18_Termination ==
    /\ <>(pc = "done")
    /\ [](/\ Invocations <= RETRY_ATTEMPTS
          /\ Invocations <= retries
          /\ Count("clone_ok") + Count("clone_exhausted") <= 1
          /\ \A i \in 1..Len(log) :
                log[i] \in {"clone_ok", "clone_exhausted"}
                  => \A j \in (i + 1)..Len(log) :
                        log[j] \notin CloneEvents \cup {"sleep", "clone_exhausted"})

\* C18 witness: the last of the RETRY_ATTEMPTS invocations succeeded and
\* main ran to its end.
C18_Witness ==
    /\ pc = "done"
    /\ Invocations = RETRY_ATTEMPTS
    /\ "clone_ok" \in Events
    /\ "verify_ok" \in Events

(* ---------------------- claims on the IndexRenderer ------------------- *)

\* render_template has run: links and indexMd are its results.
Rendered == rpc = "write" \/ (rpc = "done" /\ rExit = 0)

\* The entries of arts that are not blank, in order.
WithoutBlanks(arts) == SelectSeq(arts, LAMBDA a : Strip(a) # <<>>)

\* The non-blank entries of arts, trimmed, the first of each group of
\* entries that are equal ignoring case once trimmed.
RECURSIVE FirstOfEachFrom(_, _)
FirstOfEachFrom(arts, keys) ==
    IF arts = <<>> THEN <<>>
    ELSE LET t == Strip(Head(arts))
         IN  IF t # <<>> /\ Lower(t) \notin keys
             THEN <<t>> \o FirstOfEachFrom(Tail(arts), keys \cup {Lower(t)})
             ELSE FirstOfEachFrom(Tail(arts), keys)

FirstOfEach(arts) == FirstOfEachFrom(arts, {})

\* C11: the links of render_template are the non-blank entries of the
\* artifact list, trimmed, the first occurrence of each group of entries
\* equal ignoring case after trimming, in order; no two links are equal
\* ignoring case.
C11_Deduplication ==
    Rendered
        => /\ links = FirstOfEach(artifacts)
           /\ \A i, j \in 1..Len(links) : i # j => Lower(links[i]) # Lower(links[j])

\* C12: when --artifacts is given, the artifact list is taken from it and
\* --config is not consulted for it; with neither --artifacts nor --config
\* main prints its error to stderr and exits with status 1, the output
\* file as it was.
C12_DriverPrecedence ==
    rpc # "start"
        => /\ (args.artifacts.given /\ args.config) => source # "config"
           /\ (args.artifacts.given /\ source = "artifacts")
                => artifacts = ParseArtifacts(args.artifacts.s)
           /\ (~args.artifacts.given /\ ~args.config)
                => /\ rpc = "done" /\ rExit = 1 /\ stderr
                   /\ outFile = out0

\* C13: the text written to the output file ends with exactly one newline
\* with no whitespace before it, and is the rendered text up to there.
C13_TrailingNewline ==
    (rpc = "done" /\ rExit = 0)
        => LET t == outFile.text
               n == Len(t)
           IN  /\ outFile.exists
               /\ n >= 1 /\ t[n] = "\n"
               /\ n > 1 => ~IsSpace(t[n - 1])
               /\ n - 1 <= Len(indexMd)
               /\ SubSeq(t, 1, n - 1) = SubSeq(indexMd, 1, n - 1)
               /\ \A i \in n..Len(indexMd) : IsSpace(indexMd[i])

\* C13 witness: the template ends with blank, newline, newline; one
\* newline is written.
C13_Witness ==
    /\ rpc = "done"
    /\ rExit = 0
    /\ Len(indexMd) >= 3
    /\ SubSeq(indexMd, Len(indexMd) - 2, Len(indexMd)) = <<" ", "\n", "\n">>
    /\ Len(outFile.text) = Len(indexMd) - 2

\* C14: blank entries give no link and do not change which other entries
\* are kept; no link is empty or whitespace.
C14_BlankEntries ==
    Rendered
        => /\ \A i \in 1..Len(links) : Strip(links[i]) # <<>>
           /\ links = Uniq(WithoutBlanks(artifacts))
           /\ Len(links) <= Len(WithoutBlanks(artifacts))

\* C14 witness: ["", "  ", "x"] gives the one link for x.
C14_Witness ==
    /\ rpc = "done"
    /\ artifacts = << <<>>, <<" ", " ">>, NameX >>
    /\ links = <<NameX>>
    /\ templateFile.text = LINKS_TOKEN \o <<"\n">>
    /\ outFile.text = <<"-", " ", "[", "x", "]", "(", ".", "/", "x", ")", "\n">>

\* One pass over the template: each token where it stands becomes its
\* value, every other character stays, the values are not looked into.
RECURSIVE SubstituteOnce(_, _, _, _)
SubstituteOnce(t, p, l, d) ==
    IF t = <<>> THEN <<>>
    ELSE IF StartsWith(t, PROJECT_TOKEN)
         THEN p \o SubstituteOnce(Drop(t, Len(PROJECT_TOKEN)), p, l, d)
    ELSE IF StartsWith(t, LINKS_TOKEN)
         THEN l \o SubstituteOnce(Drop(t, Len(LINKS_TOKEN)), p, l, d)
    ELSE IF StartsWith(t, DATE_TOKEN)
         THEN d \o SubstituteOnce(Drop(t, Len(DATE_TOKEN)), p, l, d)
    ELSE <<Head(t)>> \o SubstituteOnce(Tail(t), p, l, d)

\* C19: the rendered text is the template with each token replaced by its
\* value and nothing else changed: a value that holds the text of a token
\* comes out as it is.
C19_VerbatimSubstitution ==
    Rendered
        => \E ts \in TimestampInputs :
              indexMd = SubstituteOnce(templateFile.text, OrEmpty(project),
                                       LinksBlock(links), ts)

\* C20: main succeeds only with --config or with both --project and
\* --artifacts; --artifacts without --project and without --config ends
\* with status 1 and the output file as it was.
C20_RequiredArguments ==
    rpc = "done"
        => /\ rExit = 0 => (args.config \/ (args.project.given /\ args.artifacts.given))
           /\ (args.artifacts.given /\ ~args.project.given /\ ~args.config)
                => rExit = 1 /\ outFile = out0

====
